---- MODULE Spec2Model ----
(***************************************************************************)
(* Model of als: the SignalingQueue and DataStore of src/als/model.py and  *)
(* the FolderScanner of src/als/io/input.py.                               *)
(*                                                                         *)
(* The specifications share the variables; each moves one component and   *)
(* leaves the others in their constructed state:                           *)
(*   SpecQueue    threads calling put/put_nowait/get/get_nowait on one     *)
(*                SignalingQueue;                                          *)
(*   SpecStore    calls on the DataStore (session flags, observers,        *)
(*                web_server_is_running, stacking_mode);                   *)
(*   SpecScanner  the FolderScanner, its monitor threads, the module level *)
(*                _IMAGE_INPUT_QUEUE and an external consumer;             *)
(*   SpecCreation the monitor threads handling creation events, scheduled  *)
(*                fairly;                                                  *)
(*   SpecDecode   read_image and _enqueue_image on every path and file     *)
(*                content of a bounded set.                                *)
(***************************************************************************)
EXTENDS Integers, Sequences, FiniteSets, TLC

(* ------------------------------ bounds -------------------------------- *)

\* threads that call the queue's methods concurrently
NumThreads == 2
\* successful operations (enqueues and dequeues) in one behaviour
MaxOps == 3

\* successful put_nowait and get_nowait calls in one behaviour
MaxNowait == 1

\* distinct observers that may register with the DataStore
NumObservers == 2
\* registrations held by the DataStore's observer list at one time
MaxObservers == 2

\* PollingObservers one FolderScanner starts in one behaviour
MaxStarts == 2
\* filesystem events dispatched to the scanner in one behaviour
MaxEvents == 2

Threads == 1..NumThreads
ObserverIds == 1..NumObservers

\* the maxsize the queue is constructed with: 0 is unbounded (the DataStore's
\* queues), 1 a capacity-bounded one
MaxSizes == {0, 1}

VARIABLES
    \* -------- SignalingQueue (model.py 18-66) --------
    sq_maxsize,     \* Queue.maxsize
    sq_queue,       \* Queue.queue, the deque of items, head first
    sq_pc,          \* per thread: where it is inside put/get; "inner_...": inside
                    \* the self.put / self.get that Queue.put_nowait /
                    \* Queue.get_nowait calls
    sq_size_arg,    \* per thread: the value self.qsize() returned, to be emitted
    sq_nowait,      \* "put_nowait" / "get_nowait": the step just taken is that call,
                    \* made on a full / an empty queue; "none": any other step
    sq_raised,      \* what the call the step just taken made raised ("none": nothing)
    sq_signals,     \* the notifications emitted, in emission order
    \* history of the queue, for the properties
    sq_ops,         \* the operations in the order they changed the queue
    sq_cur_op,      \* per thread: the index in sq_ops of its operation in progress
    sq_overlap      \* some call started while another thread was inside a call

sq_vars == <<sq_maxsize, sq_queue, sq_pc, sq_size_arg, sq_nowait, sq_raised, sq_signals,
             sq_ops, sq_cur_op, sq_overlap>>

VARIABLES
    \* -------- DataStore (model.py 129-360) --------
    session_is_started,     \* self._session_is_started
    session_is_stopped,     \* self._session_is_stopped
    session_is_paused,      \* self._session_is_paused
    web_server_is_running,  \* self._web_server_is_running
    stacking_mode,          \* self._stacking_mode, a sequence of characters
    align_before_stacking,  \* self._align_before_stacking
    observers,              \* self._observers, in registration order
    \* history of the store, for the properties
    st_last_call,           \* the most recent call on the store
    st_last_session_call,   \* the most recent of record_session_start/stop/pause
    st_repeat,              \* that call found the session already in its state
    st_observers_before,    \* self._observers when the most recent call started
    st_refreshed,           \* the refreshes of the most recent call: observer, state seen
    st_text,                \* the text of the most recent stacking_mode assignment
    st_raised               \* what the most recent call raised

st_vars == <<session_is_started, session_is_stopped, session_is_paused,
             web_server_is_running, stacking_mode, align_before_stacking, observers,
             st_last_call, st_last_session_call, st_repeat, st_observers_before,
             st_refreshed, st_text, st_raised>>

VARIABLES
    \* -------- FolderScanner and its module (io/input.py) --------
    observer,           \* self._observer: 0 is None, else the monitor it refers to
    mon_running,        \* per PollingObserver started: it has not been stopped
    mon_handler,        \* per PollingObserver: the event its thread is handling
    scan_in_progress,   \* STORE.scan_in_progress: "unset" until first assigned
    image_input_queue,  \* _IMAGE_INPUT_QUEUE, head first
    main_pc,            \* where the thread calling start/pause/stop is
    \* history of the scanner, for the properties
    sc_last,            \* the call that has just returned: "start", "pause", "stop";
                        \* "on_created", "on_moved"; "step" after any other step
    sc_was_monitoring,  \* self._observer was set when that pause or stop was called
    sc_handling_at_stop,\* the monitors still handling the event they were handling
                        \* when the most recent stop() was called
    sc_since_stop,      \* stop() has returned and start() was not called since
    sc_late_enqueue,    \* an image was enqueued while sc_since_stop
    sc_events,          \* events dispatched so far
    sc_images           \* images enqueued so far

sc_vars == <<observer, mon_running, mon_handler, scan_in_progress, image_input_queue,
             main_pc, sc_last, sc_was_monitoring, sc_handling_at_stop,
             sc_since_stop, sc_late_enqueue, sc_events, sc_images>>

VARIABLES
    \* -------- one call of _enqueue_image(read_image(path)) (io/input.py) --------
    rd_pc,      \* "none": no such call; "call": read_image is about to be called;
                \* "read": it returned; "done": _enqueue_image returned too;
                \* "raised": an exception left read_image
    rd_path,    \* the path handed to read_image
    rd_content, \* what the libraries make of the file at that path
    rd_result   \* what read_image did: the image, the readers called, the exception

rd_vars == <<rd_pc, rd_path, rd_content, rd_result>>

vars == <<sq_vars, st_vars, sc_vars, rd_vars>>

\* what a step of one component leaves alone
QueueOnly == UNCHANGED <<st_vars, sc_vars, rd_vars>>
StoreOnly == UNCHANGED <<sq_vars, sc_vars, rd_vars>>
ScannerOnly == UNCHANGED <<sq_vars, st_vars, rd_vars>>
DecodeOnly == UNCHANGED <<sq_vars, st_vars, observer, mon_running, mon_handler,
                          scan_in_progress, main_pc, sc_last,
                          sc_was_monitoring, sc_handling_at_stop, sc_since_stop,
                          sc_late_enqueue, sc_events, sc_images>>

(* --------------------------- SignalingQueue --------------------------- *)

\* Queue._qsize(): len(self.queue)
qsize(q) == Len(q)

\* Queue._put(item): self.queue.append(item)
Queue_put(q, item) == Append(q, item)

\* Queue._get() taking the newest item (pop() for popleft())
Queue_get_lifo(q) == <<q[Len(q)], SubSeq(q, 1, Len(q) - 1)>>

\* Queue._get(): self.queue.popleft(); <<item, the rest>>
Queue_get(q) == <<Head(q), Tail(q)>>

NumPuts == Len(SelectSeq(sq_ops, LAMBDA o : o.kind = "put"))
NumNowait == Len(SelectSeq(sq_ops, LAMBDA o : o.nowait))

\* a call starts: it overlaps when another thread is inside a call
StartCall(t) == sq_overlap' = (sq_overlap \/ \E u \in Threads \ {t} : sq_pc[u] # "idle")

SqInit ==
    /\ sq_maxsize \in MaxSizes
    /\ sq_queue = <<>>
    /\ sq_pc = [t \in Threads |-> "idle"]
    /\ sq_size_arg = [t \in Threads |-> 0]
    /\ sq_nowait = "none"
    /\ sq_raised = "none"
    /\ sq_signals = <<>>
    /\ sq_ops = <<>>
    /\ sq_cur_op = [t \in Threads |-> 0]
    /\ sq_overlap = FALSE

\* the effect of Queue.put(item, block, timeout) on a queue with room; pc is
\* the statement the thread is at when Queue.put has returned
super_put(t, item, pc) ==
    /\ sq_queue' = Queue_put(sq_queue, item)
    /\ sq_ops' = Append(sq_ops, [kind |-> "put", item |-> item,
                                 size_after |-> qsize(sq_queue) + 1,
                                 nowait |-> (pc = "inner_put_qsize")])
    /\ sq_cur_op' = [sq_cur_op EXCEPT ![t] = Len(sq_ops) + 1]
    /\ sq_pc' = [sq_pc EXCEPT ![t] = pc]
    /\ sq_raised' = "none"
    /\ UNCHANGED <<sq_maxsize, sq_size_arg, sq_signals>>

\* the effect of Queue.get(block, timeout) on a queue that holds an item; pc is
\* the statement the thread is at when Queue.get has returned
super_get(t, pc) ==
    /\ sq_queue' = Queue_get(sq_queue)[2]
    /\ sq_ops' = Append(sq_ops, [kind |-> "get", item |-> Queue_get(sq_queue)[1],
                                 size_after |-> qsize(Queue_get(sq_queue)[2]),
                                 nowait |-> (pc = "inner_get_qsize")])
    /\ sq_cur_op' = [sq_cur_op EXCEPT ![t] = Len(sq_ops) + 1]
    /\ sq_pc' = [sq_pc EXCEPT ![t] = pc]
    /\ sq_raised' = "none"
    /\ UNCHANGED <<sq_maxsize, sq_size_arg, sq_signals>>

\* the call raises: nothing of the queue changes and no signal is emitted
sq_raise(t, exc) ==
    /\ sq_raised' = exc
    /\ UNCHANGED <<sq_maxsize, sq_queue, sq_pc, sq_size_arg, sq_signals, sq_ops, sq_cur_op>>

IsFull == sq_maxsize > 0 /\ qsize(sq_queue) >= sq_maxsize

\* SignalingQueue.put(item, block=True, timeout): super().put(...).  A blocking
\* put without timeout waits while the queue is full (the action is disabled);
\* with a timeout that elapses it raises Full.
put(t, timed) ==
    /\ QueueOnly
    /\ sq_pc[t] = "idle"
    /\ StartCall(t)
    /\ sq_nowait' = "none"
    /\ IF IsFull
       THEN timed /\ sq_raise(t, "Full")
       ELSE Len(sq_ops) < MaxOps /\ super_put(t, NumPuts + 1, "put_qsize")

\* put_nowait that makes room on a full queue by dropping the oldest item
put_nowait_drop_oldest(t) ==
    /\ QueueOnly
    /\ sq_pc[t] = "idle"
    /\ StartCall(t)
    /\ Len(sq_ops) < MaxOps /\ NumNowait < MaxNowait
    /\ sq_nowait' = IF IsFull THEN "put_nowait" ELSE "none"
    /\ sq_queue' = Queue_put(IF IsFull THEN Tail(sq_queue) ELSE sq_queue, NumPuts + 1)
    /\ sq_ops' = Append(sq_ops, [kind |-> "put", item |-> NumPuts + 1,
                                 size_after |-> qsize(sq_queue'), nowait |-> TRUE])
    /\ sq_cur_op' = [sq_cur_op EXCEPT ![t] = Len(sq_ops) + 1]
    /\ sq_pc' = [sq_pc EXCEPT ![t] = "inner_put_qsize"]
    /\ sq_raised' = "none"
    /\ UNCHANGED <<sq_maxsize, sq_size_arg, sq_signals>>

\* SignalingQueue.put_nowait(item): super().put_nowait(item), which is
\* Queue.put_nowait: self.put(item, block=False), and self.put is
\* SignalingQueue.put: Queue.put raises Full at once on a full queue;
\* otherwise it enqueues, SignalingQueue.put emits (the "inner_" positions) and
\* put_nowait's own emit follows.
put_nowait(t) ==
    /\ QueueOnly
    /\ sq_pc[t] = "idle"
    /\ StartCall(t)
    /\ sq_nowait' = IF IsFull THEN "put_nowait" ELSE "none"
    /\ IF IsFull
       THEN sq_raise(t, "Full")
       ELSE /\ Len(sq_ops) < MaxOps /\ NumNowait < MaxNowait
            /\ super_put(t, NumPuts + 1, "inner_put_qsize")

\* SignalingQueue.get(block=True, timeout): super().get(...).  A blocking get
\* without timeout waits while the queue is empty; with a timeout that elapses
\* it raises Empty.
get(t, timed) ==
    /\ QueueOnly
    /\ sq_pc[t] = "idle"
    /\ StartCall(t)
    /\ sq_nowait' = "none"
    /\ IF qsize(sq_queue) = 0
       THEN timed /\ sq_raise(t, "Empty")
       ELSE Len(sq_ops) < MaxOps /\ super_get(t, "get_qsize")

\* SignalingQueue.get_nowait(): super().get_nowait(), which is
\* Queue.get_nowait: self.get(block=False), and self.get is SignalingQueue.get:
\* Queue.get raises Empty at once on an empty queue; otherwise it dequeues,
\* SignalingQueue.get emits (the "inner_" positions) and get_nowait's own emit
\* follows.
get_nowait(t) ==
    /\ QueueOnly
    /\ sq_pc[t] = "idle"
    /\ StartCall(t)
    /\ sq_nowait' = IF qsize(sq_queue) = 0 THEN "get_nowait" ELSE "none"
    /\ IF qsize(sq_queue) = 0
       THEN sq_raise(t, "Empty")
       ELSE /\ Len(sq_ops) < MaxOps /\ NumNowait < MaxNowait
            /\ super_get(t, "inner_get_qsize")

\* the position after self.qsize(), and the position after the emit: the emit
\* of SignalingQueue.put / get called by Queue.put_nowait / get_nowait returns
\* into put_nowait / get_nowait, whose own self.qsize() and emit come next
QsizeThenEmit ==
    [pc \in {"put_qsize", "get_qsize", "inner_put_qsize", "inner_get_qsize"} |->
        CASE pc = "put_qsize" -> "put_emit"
          [] pc = "get_qsize" -> "get_emit"
          [] pc = "inner_put_qsize" -> "inner_put_emit"
          [] pc = "inner_get_qsize" -> "inner_get_emit"]
EmitThen ==
    [pc \in {"put_emit", "get_emit", "inner_put_emit", "inner_get_emit"} |->
        CASE pc = "put_emit" -> "idle"
          [] pc = "get_emit" -> "idle"
          [] pc = "inner_put_emit" -> "put_qsize"
          [] pc = "inner_get_emit" -> "get_qsize"]

\* the argument of emit is evaluated: self.qsize(), under the queue's mutex
eval_qsize(t) ==
    /\ QueueOnly
    /\ sq_pc[t] \in DOMAIN QsizeThenEmit
    /\ sq_size_arg' = [sq_size_arg EXCEPT ![t] = qsize(sq_queue)]
    /\ sq_pc' = [sq_pc EXCEPT ![t] = QsizeThenEmit[sq_pc[t]]]
    /\ sq_nowait' = "none"
    /\ sq_raised' = "none"
    /\ UNCHANGED <<sq_maxsize, sq_queue, sq_signals, sq_ops, sq_cur_op, sq_overlap>>

\* the value a thread hands to emit
emit_value(t) == sq_size_arg[t]

\* self.item_pushed_signal.emit(n) / self.item_popped_signal.emit(n), then
\* put / get returns: to its caller, or into put_nowait / get_nowait
emit(t) ==
    /\ QueueOnly
    /\ sq_pc[t] \in DOMAIN EmitThen
    /\ sq_signals' = Append(sq_signals,
            [signal |-> IF sq_pc[t] \in {"put_emit", "inner_put_emit"}
                        THEN "pushed" ELSE "popped",
             value |-> emit_value(t), op |-> sq_cur_op[t]])
    /\ sq_pc' = [sq_pc EXCEPT ![t] = EmitThen[sq_pc[t]]]
    /\ sq_cur_op' = [sq_cur_op EXCEPT ![t] = IF EmitThen[sq_pc[t]] = "idle"
                                             THEN 0 ELSE sq_cur_op[t]]
    /\ sq_size_arg' = [sq_size_arg EXCEPT ![t] = 0]
    /\ sq_nowait' = "none"
    /\ sq_raised' = "none"
    /\ UNCHANGED <<sq_maxsize, sq_queue, sq_ops, sq_overlap>>

SqNext ==
    \E t \in Threads :
        \/ \E timed \in BOOLEAN : put(t, timed)
        \/ put_nowait(t)
        \/ \E timed \in BOOLEAN : get(t, timed)
        \/ get_nowait(t)
        \/ eval_qsize(t)
        \/ emit(t)


(* ------------------------------ DataStore ----------------------------- *)

STACKING_MODE_SUM == <<"S", "u", "m">>
STACKING_MODE_MEAN == <<"M", "e", "a", "n">>

\* the characters str.strip() removes, as far as the texts below hold them
Whitespace == {" ", "\t", "\n"}

RECURSIVE lstrip(_)
lstrip(s) == IF s # <<>> /\ Head(s) \in Whitespace THEN lstrip(Tail(s)) ELSE s

RECURSIVE rstrip(_)
rstrip(s) == IF s # <<>> /\ s[Len(s)] \in Whitespace
             THEN rstrip(SubSeq(s, 1, Len(s) - 1)) ELSE s

\* str.strip()
strip(s) == rstrip(lstrip(s))

\* the texts assigned to stacking_mode: a word with or without surrounding blanks
Pads == {<<>>, <<" ">>}
Words == {STACKING_MODE_SUM, STACKING_MODE_MEAN, <<"b", "o", "g", "u", "s">>,
          <<"s", "u", "m">>, <<>>}
Texts == {pre \o w \o post : pre \in Pads, w \in Words, post \in Pads}

\* what an observer's update_according_to_app_state does to the store besides
\* reading it: nothing, or unregistering itself
RefreshEffects == {"none", "remove_self"}

\* list.remove(x): the list without the first occurrence of x (x is in the list)
list_remove(l, x) ==
    LET i == CHOOSE k \in 1..Len(l) : l[k] = x /\ \A j \in 1..(k - 1) : l[j] # x
    IN SubSeq(l, 1, i - 1) \o SubSeq(l, i + 1, Len(l))

IsIn(x, l) == \E k \in 1..Len(l) : l[k] = x

\* DataStore._notify_observers: for observer in self._observers:
\* observer.update_according_to_app_state().  The for loop walks the live list by
\* index; i is the iterator's index, eff the effect of each observer's refresh,
\* seen the state a refresh reads.  [observers: the list left, log: the refreshes]
RECURSIVE notify_observers(_, _, _, _, _)
notify_observers(l, i, eff, log, seen) ==
    IF i > Len(l)
    THEN [observers |-> l, log |-> log]
    ELSE LET o == l[i]
             l2 == IF eff[o] = "remove_self" THEN list_remove(l, o) ELSE l
         IN notify_observers(l2, i + 1, eff, Append(log, [observer |-> o, seen |-> seen]), seen)

StInit ==
    /\ session_is_started = FALSE
    /\ session_is_stopped = TRUE
    /\ session_is_paused = FALSE
    /\ web_server_is_running = FALSE
    /\ stacking_mode = <<>>
    /\ align_before_stacking = TRUE
    /\ observers = <<>>
    /\ st_last_call = "__init__"
    /\ st_last_session_call = "none"
    /\ st_repeat = FALSE
    /\ st_observers_before = <<>>
    /\ st_refreshed = <<>>
    /\ st_text = <<>>
    /\ st_raised = "none"

\* a call that ends in self._notify_observers(): the flags are set first, then
\* every refresh runs, on the calling thread, before the call returns
notifying_call(name, started, stopped, paused, running) ==
    \E eff \in [ObserverIds -> RefreshEffects] :
        LET r == notify_observers(observers, 1, eff, <<>>,
                                  <<started, stopped, paused, running>>)
        IN /\ session_is_started' = started
           /\ session_is_stopped' = stopped
           /\ session_is_paused' = paused
           /\ web_server_is_running' = running
           /\ observers' = r.observers
           /\ st_refreshed' = r.log
           /\ st_observers_before' = observers
           /\ st_last_call' = name
           /\ st_text' = <<>>
           /\ st_raised' = "none"
           /\ UNCHANGED <<stacking_mode, align_before_stacking>>

session_call(name) ==
    /\ st_last_session_call' = name
    /\ st_repeat' = (st_last_session_call = name)

\* DataStore.record_session_start
record_session_start ==
    /\ StoreOnly
    /\ notifying_call("record_session_start", TRUE, FALSE, FALSE, web_server_is_running)
    /\ session_call("record_session_start")

\* DataStore.record_session_stop
record_session_stop ==
    /\ StoreOnly
    /\ notifying_call("record_session_stop", FALSE, TRUE, FALSE, web_server_is_running)
    /\ session_call("record_session_stop")

\* record_session_pause without self._session_is_started = False
record_session_pause_keeps_started ==
    /\ StoreOnly
    /\ notifying_call("record_session_pause", session_is_started, FALSE, TRUE,
                      web_server_is_running)
    /\ session_call("record_session_pause")

\* DataStore.record_session_pause
record_session_pause ==
    /\ StoreOnly
    /\ notifying_call("record_session_pause", FALSE, FALSE, TRUE, web_server_is_running)
    /\ session_call("record_session_pause")

\* DataStore.web_server_is_running setter
set_web_server_is_running(running) ==
    /\ StoreOnly
    /\ notifying_call("web_server_is_running", session_is_started, session_is_stopped,
                      session_is_paused, running)
    /\ UNCHANGED <<st_last_session_call, st_repeat>>

\* a call that notifies nobody
quiet_call(name, text, exc) ==
    /\ st_last_call' = name
    /\ st_text' = text
    /\ st_raised' = exc
    /\ st_observers_before' = observers
    /\ st_refreshed' = <<>>
    /\ UNCHANGED <<session_is_started, session_is_stopped, session_is_paused,
                   web_server_is_running, st_last_session_call, st_repeat>>

\* DataStore.stacking_mode setter
set_stacking_mode(text) ==
    /\ StoreOnly
    /\ stacking_mode' = IF strip(text) \in {STACKING_MODE_MEAN, STACKING_MODE_SUM}
                        THEN text
                        ELSE STACKING_MODE_MEAN
    /\ quiet_call("stacking_mode", text, "none")
    /\ UNCHANGED <<align_before_stacking, observers>>

\* DataStore.align_before_stacking setter
set_align_before_stacking(align) ==
    /\ StoreOnly
    /\ align_before_stacking' = align
    /\ quiet_call("align_before_stacking", <<>>, "none")
    /\ UNCHANGED <<stacking_mode, observers>>

\* DataStore.add_observer: self._observers.append(observer)
add_observer(o) ==
    /\ StoreOnly
    /\ Len(observers) < MaxObservers
    /\ observers' = Append(observers, o)
    /\ quiet_call("add_observer", <<>>, "none")
    /\ UNCHANGED <<stacking_mode, align_before_stacking>>

\* DataStore.remove_observer: self._observers.remove(observer), which raises
\* ValueError when the observer is not in the list
remove_observer(o) ==
    /\ StoreOnly
    /\ observers' = IF IsIn(o, observers) THEN list_remove(observers, o) ELSE observers
    /\ quiet_call("remove_observer", <<>>,
                  IF IsIn(o, observers) THEN "none" ELSE "ValueError")
    /\ UNCHANGED <<stacking_mode, align_before_stacking>>

StNext ==
    \/ record_session_start
    \/ record_session_stop
    \/ record_session_pause
    \/ \E running \in BOOLEAN : set_web_server_is_running(running)
    \/ \E text \in Texts : set_stacking_mode(text)
    \/ \E align \in BOOLEAN : set_align_before_stacking(align)
    \/ \E o \in ObserverIds : add_observer(o)
    \/ \E o \in ObserverIds : remove_observer(o)

(* ----------------------------- FolderScanner -------------------------- *)

_IGNORED_FILENAME_START_PATTERNS == << <<".">>, <<"~">>, <<"t", "m", "p">> >>

\* the folder the scanner watches, and the names of the files events are about
ScanFolder == <<"/", "w">>
FileNames == << <<"n", ".", "c", "r", "2">>,
                <<".", "a", ".", "f", "i", "t">> >>
Files == 1..Len(FileNames)
\* event.src_path / event.dest_path of those events
EventPaths == {ScanFolder \o <<"/">> \o FileNames[f] : f \in Files}
\* the sizes QFileInfo.size() returns while a file is written
FileSizes == {1, 2}

\* the letters str.lower() changes, and what it changes them to
UpperCase == <<"A", "B", "C", "D", "E", "F", "G", "H", "I", "J", "K", "L", "M",
               "N", "O", "P", "Q", "R", "S", "T", "U", "V", "W", "X", "Y", "Z">>
LowerCase == <<"a", "b", "c", "d", "e", "f", "g", "h", "i", "j", "k", "l", "m",
               "n", "o", "p", "q", "r", "s", "t", "u", "v", "w", "x", "y", "z">>

\* str.lower()
lower(s) ==
    [i \in 1..Len(s) |->
        IF \E k \in 1..Len(UpperCase) : UpperCase[k] = s[i]
        THEN LowerCase[CHOOSE k \in 1..Len(UpperCase) : UpperCase[k] = s[i]]
        ELSE s[i]]

\* str.rfind(c): the index, counted from 0, of the last c in s; -1 when s has none
rfind(s, c) ==
    IF \E i \in 1..Len(s) : s[i] = c
    THEN (CHOOSE i \in 1..Len(s) : s[i] = c /\ \A j \in (i + 1)..Len(s) : s[j] # c) - 1
    ELSE -1

\* Path.name: the last component of the path, what follows its last "/"
name(path) == SubSeq(path, rfind(path, "/") + 2, Len(path))

\* Path.suffix: the name from its last "." on, when that "." is neither the
\* first nor the last character of the name; the empty string otherwise
suffix(path) ==
    LET n == name(path)
        i == rfind(n, ".")
    IN IF 0 < i /\ i < Len(n) - 1 THEN SubSeq(n, i + 1, Len(n)) ELSE <<>>

\* str.startswith(prefix)
startswith(s, prefix) == Len(s) >= Len(prefix) /\ SubSeq(s, 1, Len(prefix)) = prefix

\* the loop matching the patterns against the path as a whole
ignore_image_whole_path(path) ==
    \E k \in 1..Len(_IGNORED_FILENAME_START_PATTERNS) :
        startswith(path, _IGNORED_FILENAME_START_PATTERNS[k])

\* the loop of read_image over _IGNORED_FILENAME_START_PATTERNS
ignore_image(path) ==
    \E k \in 1..Len(_IGNORED_FILENAME_START_PATTERNS) :
        startswith(name(path), _IGNORED_FILENAME_START_PATTERNS[k])

\* Image._bayer_pattern of an image that was given none
NoPattern == <<"None">>

None == [origin |-> <<>>, serial |-> 0, bayer_pattern |-> NoPattern]

\* what a reader hands back: the image (None: none) and the exception that
\* left it ("none": it returned)
Returned(image) == [image |-> image, raised |-> "none"]
Raised(exc) == [image |-> None, raised |-> exc]

\* What the libraries make of a file's content, a record with
\*   fits: what astropy's fits.open gives: error "OSError" or "none", and
\*         bayerpat, the BAYERPAT card of the header (NoPattern: no such card)
\*   raw:  what rawpy's imread gives: error "LibRawNonFatalError",
\*         "LibRawFatalError" or "none", raw_pattern.flatten() and
\*         color_desc.decode()
\* _read_fit_image(path): resulting image, its data standing as `serial`
_read_fit_image(content, serial) ==
    IF content.fits.error = "OSError"
    THEN Returned(None)
    ELSE Returned([origin |-> <<>>, serial |-> serial,
                   bayer_pattern |-> content.fits.bayerpat])

\* the loop of _read_raw_image from turn i on (i counted from 0, as range does),
\* bayer_pattern being what the earlier turns built
RECURSIVE bayer_pattern_loop(_, _, _, _)
bayer_pattern_loop(indices, color_desc, i, bayer_pattern) ==
    IF i >= Len(indices) THEN [bayer_pattern |-> bayer_pattern, raised |-> "none"]
    ELSE IF ~(indices[i + 1] < Len(indices))
         THEN [bayer_pattern |-> bayer_pattern, raised |-> "AssertionError"]
         ELSE bayer_pattern_loop(indices, color_desc, i + 1,
                                 Append(bayer_pattern, color_desc[indices[i + 1] + 1]))

\* the loop with color_desc[i] for color_desc[indices[i]]
bayer_pattern_unpermuted(indices, color_desc) ==
    IF Len(indices) # Len(color_desc)
    THEN [bayer_pattern |-> <<>>, raised |-> "AssertionError"]
    ELSE [bayer_pattern |-> color_desc, raised |-> "none"]

\* _read_raw_image, lines 245-252: the bayer pattern as a FITS header would
\* give it, or the AssertionError of one of the two asserts
bayer_pattern(indices, color_desc) ==
    IF Len(indices) # Len(color_desc)
    THEN [bayer_pattern |-> <<>>, raised |-> "AssertionError"]
    ELSE bayer_pattern_loop(indices, color_desc, 0, <<>>)

\* _read_raw_image(path): the LibRaw errors are caught and reported, an
\* AssertionError is not caught
_read_raw_image(content, serial) ==
    IF content.raw.error # "none"
    THEN Returned(None)
    ELSE LET b == bayer_pattern(content.raw.raw_pattern, content.raw.color_desc)
         IN IF b.raised # "none"
            THEN Raised(b.raised)
            ELSE Returned([origin |-> <<>>, serial |-> serial,
                           bayer_pattern |-> b.bayer_pattern])

\* the test of read_image's dispatch with the suffix compared as it is
is_fit_suffix_case_sensitive(path) ==
    suffix(path) \in {<<".", "f", "i", "t">>, <<".", "f", "i", "t", "s">>}

\* read_image, line 146: path.suffix.lower() in ['.fit', '.fits']
is_fit_suffix(path) ==
    lower(suffix(path)) \in {<<".", "f", "i", "t">>, <<".", "f", "i", "t", "s">>}

\* read_image(path): the image, None for an ignored name and when the reader
\* caught and reported an error; readers are the readers it called; raised is
\* the exception that left it
read_image(path, content, serial) ==
    IF ignore_image(path)
    THEN [image |-> None, readers |-> <<>>, raised |-> "none"]
    ELSE LET fit == is_fit_suffix(path)
             r == IF fit THEN _read_fit_image(content, serial)
                         ELSE _read_raw_image(content, serial)
         IN [image |-> IF r.image # None THEN [r.image EXCEPT !.origin = path] ELSE None,
             readers |-> IF fit THEN <<"_read_fit_image">> ELSE <<"_read_raw_image">>,
             raised |-> r.raised]

\* _enqueue_image(image): if image is not None: _IMAGE_INPUT_QUEUE.put(image)
_enqueue_image(queue, image) == IF image # None THEN Queue_put(queue, image) ELSE queue

\* the contents of the files the scanner comes across: one both libraries
\* read, one neither reads, and the raw file of a sensor with a 6x6 colour
\* filter tile and four colour labels
GoodContent ==
    [fits |-> [error |-> "none", bayerpat |-> NoPattern],
     raw |-> [error |-> "none", raw_pattern |-> <<0, 1, 3, 2>>,
              color_desc |-> <<"R", "G", "B", "G">>]]
UnreadableContent ==
    [fits |-> [error |-> "OSError", bayerpat |-> NoPattern],
     raw |-> [error |-> "LibRawFatalError", raw_pattern |-> <<>>, color_desc |-> <<>>]]
MismatchContent ==
    [fits |-> [error |-> "OSError", bayerpat |-> NoPattern],
     raw |-> [error |-> "none",
              raw_pattern |-> <<1, 2, 1, 1, 0, 1,  0, 1, 0, 2, 1, 2,  1, 2, 1, 1, 0, 1,
                                1, 0, 1, 1, 2, 1,  2, 1, 2, 0, 1, 0,  1, 0, 1, 1, 2, 1>>,
              color_desc |-> <<"R", "G", "B", "G">>]]
ScanContents == {GoodContent, UnreadableContent, MismatchContent}

\* read_image for every path, content and serial the scanner can hand it
ScanResults ==
    [path \in EventPaths, content \in ScanContents, serial \in 1..MaxEvents |->
        read_image(path, content, serial)]

\* a monitor thread: what it is doing (state "idle": waiting for an event,
\* "polling": in on_created's loop, "decode": about to read the image,
\* "enqueued": inside _enqueue_image, past the put of the image if there is one,
\* "raised": ended by an exception that left the handler), the kind and the
\* path of the event it handles, on_created's last_file_size, and polled: the
\* size of the file was read at least once for this event
IdleHandler == [state |-> "idle", kind |-> "none", path |-> <<>>, last_file_size |-> -1,
                polled |-> FALSE]
RaisedHandler == [IdleHandler EXCEPT !.state = "raised"]

ScInit ==
    /\ observer = 0
    /\ mon_running = <<>>
    /\ mon_handler = <<>>
    /\ scan_in_progress = "unset"
    /\ image_input_queue = <<>>
    /\ main_pc = "idle"
    /\ sc_last = "__init__"
    /\ sc_was_monitoring = FALSE
    /\ sc_handling_at_stop = {}
    /\ sc_since_stop = FALSE
    /\ sc_late_enqueue = FALSE
    /\ sc_events = 0
    /\ sc_images = 0

Monitors == 1..Len(mon_running)

\* FolderScanner.start, up to self._observer.start(): a new PollingObserver is
\* scheduled and started, and self._observer refers to it, whatever it referred
\* to before.  self._observer is read and written by the calling thread only,
\* so its assignment and the monitor's start are one step; the monitor's thread
\* runs from here on, while the caller has not yet set scan_in_progress.
start ==
    /\ ScannerOnly
    /\ main_pc = "idle"
    /\ Len(mon_running) < MaxStarts
    /\ mon_running' = Append(mon_running, TRUE)
    /\ mon_handler' = Append(mon_handler, IdleHandler)
    /\ observer' = Len(mon_running) + 1
    /\ main_pc' = "start_flag"
    /\ sc_last' = "step"
    /\ sc_since_stop' = FALSE
    /\ sc_was_monitoring' = FALSE
    /\ UNCHANGED <<scan_in_progress, image_input_queue, sc_handling_at_stop,
                   sc_late_enqueue, sc_events, sc_images>>

\* FolderScanner.start, its last statement: STORE.scan_in_progress = True; then
\* start() returns
start_scan_in_progress ==
    /\ ScannerOnly
    /\ main_pc = "start_flag"
    /\ scan_in_progress' = "True"
    /\ main_pc' = "idle"
    /\ sc_last' = "start"
    /\ UNCHANGED <<observer, mon_running, mon_handler, image_input_queue,
                   sc_was_monitoring, sc_handling_at_stop, sc_since_stop,
                   sc_late_enqueue, sc_events, sc_images>>

\* the states of a monitor's thread inside on_created or on_moved
HandlingStates == {"polling", "decode", "enqueued"}

\* the thread of monitor m is inside on_created or on_moved
Handling(m) == mon_handler[m].state \in HandlingStates

\* FolderScanner._stop_observer, up to self._observer.stop().  "Waiting for
\* current operation to complete...": PollingObserver.stop() tells the
\* monitor's thread to stop, so that it dispatches no further event, and waits
\* for the handler that thread is running (stop() takes the lock the observer
\* holds while it dispatches an event).  With no handler running it returns at
\* once and self._observer = None follows; self._observer is read and written
\* by the calling thread only.  When self._observer is None nothing is done.
_stop_observer ==
    /\ IF observer # 0
       THEN /\ mon_running' = [mon_running EXCEPT ![observer] = FALSE]
            /\ observer' = IF Handling(observer) THEN observer ELSE 0
       ELSE UNCHANGED <<mon_running, observer>>
    /\ sc_was_monitoring' = (observer # 0)
    /\ UNCHANGED <<mon_handler, scan_in_progress, sc_events, sc_images, sc_late_enqueue>>

\* where the caller of pause ("pause") or stop ("stop") is after that step:
\* waiting in self._observer.stop(), before STORE.scan_in_progress = False, or
\* past _stop_observer
after_stop_observer(call) ==
    IF observer = 0
    THEN IF call = "pause" THEN "idle" ELSE "purge"
    ELSE IF Handling(observer)
         THEN IF call = "pause" THEN "pause_wait" ELSE "stop_wait"
         ELSE IF call = "pause" THEN "pause_flag" ELSE "stop_flag"

\* pause() purging the queue as stop() does
pause_and_purge ==
    /\ ScannerOnly
    /\ main_pc = "idle"
    /\ _stop_observer
    /\ image_input_queue' = <<>>
    /\ main_pc' = after_stop_observer("pause")
    /\ sc_last' = IF observer # 0 THEN "step" ELSE "pause"
    /\ UNCHANGED <<sc_handling_at_stop, sc_since_stop>>

\* FolderScanner.pause: self._stop_observer(), which returns at once when
\* self._observer is None
pause ==
    /\ ScannerOnly
    /\ main_pc = "idle"
    /\ _stop_observer
    /\ main_pc' = after_stop_observer("pause")
    /\ sc_last' = IF observer # 0 THEN "step" ELSE "pause"
    /\ UNCHANGED <<image_input_queue, sc_handling_at_stop, sc_since_stop>>

\* FolderScanner.stop, first statement: self._stop_observer(); _purge_queue()
\* comes next
stop ==
    /\ ScannerOnly
    /\ main_pc = "idle"
    /\ _stop_observer
    /\ sc_handling_at_stop' = {m \in Monitors : Handling(m)}
    /\ main_pc' = after_stop_observer("stop")
    /\ sc_last' = "step"
    /\ UNCHANGED <<image_input_queue, sc_since_stop>>

\* FolderScanner._stop_observer: self._observer.stop() returns once the handler
\* the monitor's thread was running has returned or raised; then
\* self._observer = None
_stop_observer_stopped ==
    /\ ScannerOnly
    /\ main_pc \in {"pause_wait", "stop_wait"}
    /\ ~Handling(observer)
    /\ observer' = 0
    /\ main_pc' = IF main_pc = "pause_wait" THEN "pause_flag" ELSE "stop_flag"
    /\ sc_last' = "step"
    /\ UNCHANGED <<mon_running, mon_handler, scan_in_progress, image_input_queue,
                   sc_was_monitoring, sc_handling_at_stop, sc_since_stop,
                   sc_late_enqueue, sc_events, sc_images>>

\* FolderScanner._stop_observer, its last statement: STORE.scan_in_progress =
\* False; then pause() returns, and stop() goes on with _purge_queue()
_stop_observer_scan_in_progress ==
    /\ ScannerOnly
    /\ main_pc \in {"pause_flag", "stop_flag"}
    /\ scan_in_progress' = "False"
    /\ main_pc' = IF main_pc = "pause_flag" THEN "idle" ELSE "purge"
    /\ sc_last' = IF main_pc = "pause_flag" THEN "pause" ELSE "step"
    /\ UNCHANGED <<observer, mon_running, mon_handler, image_input_queue,
                   sc_was_monitoring, sc_handling_at_stop, sc_since_stop,
                   sc_late_enqueue, sc_events, sc_images>>

\* _purge_queue, the loop's test: while not _IMAGE_INPUT_QUEUE.empty().  When
\* the queue is found empty the loop is left; the return comes next.
_purge_queue_test ==
    /\ ScannerOnly
    /\ main_pc = "purge"
    /\ main_pc' = IF image_input_queue = <<>> THEN "purge_return" ELSE "purge_get"
    /\ sc_last' = "step"
    /\ UNCHANGED <<observer, mon_running, mon_handler, scan_in_progress, image_input_queue,
                   sc_was_monitoring, sc_handling_at_stop, sc_since_stop,
                   sc_late_enqueue, sc_events, sc_images>>

\* _purge_queue after its loop: _LOGGER.info("Input queue purged"), then
\* _purge_queue and stop() return
_purge_queue_return ==
    /\ ScannerOnly
    /\ main_pc = "purge_return"
    /\ main_pc' = "idle"
    /\ sc_last' = "stop"
    /\ sc_since_stop' = TRUE
    /\ UNCHANGED <<observer, mon_running, mon_handler, scan_in_progress, image_input_queue,
                   sc_was_monitoring, sc_handling_at_stop,
                   sc_late_enqueue, sc_events, sc_images>>

\* _purge_queue, the loop's body: _IMAGE_INPUT_QUEUE.get(), a blocking get that
\* waits while the queue is empty; the item is dropped
_purge_queue_get ==
    /\ ScannerOnly
    /\ main_pc = "purge_get"
    /\ image_input_queue # <<>>
    /\ image_input_queue' = Queue_get(image_input_queue)[2]
    /\ main_pc' = "purge"
    /\ sc_last' = "step"
    /\ UNCHANGED <<observer, mon_running, mon_handler, scan_in_progress,
                   sc_was_monitoring, sc_handling_at_stop, sc_since_stop,
                   sc_late_enqueue, sc_events, sc_images>>

\* a running monitor whose thread handles no event takes the next event
CanDispatch(m) ==
    /\ mon_running[m]
    /\ mon_handler[m].state = "idle"
    /\ sc_events < MaxEvents

\* a step of another thread than the one calling start/pause/stop: the call
\* that had just returned is no longer the latest step
other_step ==
    /\ sc_last' = "step"
    /\ IF main_pc = "idle"
       THEN sc_was_monitoring' = FALSE
       ELSE UNCHANGED sc_was_monitoring

handler_step(m, h) ==
    /\ mon_handler' = [mon_handler EXCEPT ![m] = h]
    /\ other_step
    /\ sc_handling_at_stop' = IF h.state \in HandlingStates
                              THEN sc_handling_at_stop ELSE sc_handling_at_stop \ {m}
    /\ UNCHANGED <<observer, mon_running, scan_in_progress, main_pc, sc_since_stop>>

\* on_created with last_file_size starting at the smallest size of a file
on_created_first_size_known(m, path) ==
    /\ ScannerOnly
    /\ CanDispatch(m)
    /\ handler_step(m, [state |-> "polling", kind |-> "created", path |-> path,
                        last_file_size |-> 1, polled |-> FALSE])
    /\ sc_events' = sc_events + 1
    /\ UNCHANGED <<image_input_queue, sc_late_enqueue, sc_images>>

\* FolderScanner.on_created, up to the loop: file_is_incomplete = True,
\* last_file_size = -1, image_path = event.src_path
on_created(m, path) ==
    /\ ScannerOnly
    /\ CanDispatch(m)
    /\ handler_step(m, [state |-> "polling", kind |-> "created", path |-> path,
                        last_file_size |-> -1, polled |-> FALSE])
    /\ sc_events' = sc_events + 1
    /\ UNCHANGED <<image_input_queue, sc_late_enqueue, sc_images>>

\* the loop's turn never setting file_is_incomplete to False
poll_size_never_done(m, size) ==
    /\ ScannerOnly
    /\ mon_handler[m].state = "polling"
    /\ handler_step(m, [mon_handler[m] EXCEPT
                            !.state = "polling",
                            !.last_file_size = size,
                            !.polled = TRUE])
    /\ UNCHANGED <<image_input_queue, sc_late_enqueue, sc_events, sc_images>>

\* FolderScanner.on_created, one turn of the loop: the size is read, compared
\* with the last one and kept, then the thread sleeps
poll_size(m, size) ==
    /\ ScannerOnly
    /\ mon_handler[m].state = "polling"
    /\ handler_step(m, [mon_handler[m] EXCEPT
                            !.state = IF size = mon_handler[m].last_file_size
                                      THEN "decode" ELSE "polling",
                            !.last_file_size = size,
                            !.polled = TRUE])
    /\ UNCHANGED <<image_input_queue, sc_late_enqueue, sc_events, sc_images>>

\* on_moved waiting for the size to settle, as on_created does
on_moved_polling(m, path) ==
    /\ ScannerOnly
    /\ CanDispatch(m)
    /\ handler_step(m, [state |-> "polling", kind |-> "moved", path |-> path,
                        last_file_size |-> -1, polled |-> FALSE])
    /\ sc_events' = sc_events + 1
    /\ UNCHANGED <<image_input_queue, sc_late_enqueue, sc_images>>

\* FolderScanner.on_moved, up to the decode: image_path = event.dest_path
on_moved(m, path) ==
    /\ ScannerOnly
    /\ CanDispatch(m)
    /\ handler_step(m, [state |-> "decode", kind |-> "moved", path |-> path,
                        last_file_size |-> -1, polled |-> FALSE])
    /\ sc_events' = sc_events + 1
    /\ UNCHANGED <<image_input_queue, sc_late_enqueue, sc_images>>

\* _enqueue_image(read_image(Path(image_path))) in on_created and in on_moved,
\* up to _IMAGE_INPUT_QUEUE.put(image), content being what the file holds when
\* it is read; the put is skipped when read_image returned None.  The handler
\* is still running after the put.  An exception that leaves read_image leaves
\* the handler too and ends the monitor's thread.
read_and_enqueue(m, content) ==
    /\ ScannerOnly
    /\ mon_handler[m].state = "decode"
    /\ LET r == ScanResults[mon_handler[m].path, content, sc_images + 1]
       IN IF r.raised # "none"
          THEN /\ handler_step(m, RaisedHandler)
               /\ UNCHANGED <<image_input_queue, sc_images, sc_late_enqueue>>
          ELSE /\ handler_step(m, [mon_handler[m] EXCEPT !.state = "enqueued"])
               /\ image_input_queue' = _enqueue_image(image_input_queue, r.image)
               /\ sc_images' = IF r.image # None THEN sc_images + 1 ELSE sc_images
               /\ sc_late_enqueue' = (sc_late_enqueue \/ (r.image # None /\ sc_since_stop))
    /\ UNCHANGED sc_events

\* _enqueue_image after the put: the queue's size is logged, then
\* _enqueue_image and on_created or on_moved return and the monitor's thread
\* waits for the next event
_enqueue_image_return(m) ==
    /\ ScannerOnly
    /\ mon_handler[m].state = "enqueued"
    /\ mon_handler' = [mon_handler EXCEPT ![m] = IdleHandler]
    /\ sc_last' = IF mon_handler[m].kind = "moved" THEN "on_moved" ELSE "on_created"
    /\ IF main_pc = "idle"
       THEN sc_was_monitoring' = FALSE
       ELSE UNCHANGED sc_was_monitoring
    /\ sc_handling_at_stop' = sc_handling_at_stop \ {m}
    /\ UNCHANGED <<observer, mon_running, scan_in_progress, main_pc, sc_since_stop,
                   image_input_queue, sc_late_enqueue, sc_events, sc_images>>

\* a consumer outside this module takes the next image: _IMAGE_INPUT_QUEUE.get()
consume ==
    /\ ScannerOnly
    /\ image_input_queue # <<>>
    /\ image_input_queue' = Queue_get(image_input_queue)[2]
    /\ other_step
    /\ UNCHANGED <<observer, mon_running, mon_handler, scan_in_progress, main_pc,
                   sc_handling_at_stop, sc_since_stop, sc_late_enqueue, sc_events, sc_images>>

ScNext ==
    \/ start
    \/ start_scan_in_progress
    \/ pause
    \/ stop
    \/ _stop_observer_stopped
    \/ _stop_observer_scan_in_progress
    \/ _purge_queue_test
    \/ _purge_queue_get
    \/ _purge_queue_return
    \/ \E m \in Monitors, path \in EventPaths : on_created(m, path)
    \/ \E m \in Monitors, size \in FileSizes : poll_size(m, size)
    \/ \E m \in Monitors, path \in EventPaths : on_moved(m, path)
    \/ \E m \in Monitors, content \in ScanContents : read_and_enqueue(m, content)
    \/ \E m \in Monitors : _enqueue_image_return(m)
    \/ consume

(* ------------------- read_image and _enqueue_image -------------------- *)

\* the folders and the file names of the paths read_image is applied to
PathDirs == {<<"/", "w">>, <<"/", "t", "m", "p">>, <<"/", ".", "h">>, <<"/", "d", ".", "f", "i", "t">>, <<"/", "~", "r", "/", "s">>}
PathNames == {<<"m", ".", "F", "I", "T", "S">>,
              <<"m", ".", "f", "i", "t">>,
              <<"m", ".", "F", "i", "t">>,
              <<"a", ".", "f", "i", "t", "s">>,
              <<"n", ".", "c", "r", "2">>,
              <<"n", ".", "f", "i", "t", ".", "c", "r", "2">>,
              <<"x">>,
              <<"f", "i", "t", "s">>,
              <<"a", ".", "f", "i", "t", "s", ".">>,
              <<"a", ".", "f", "i", "t", "s", "x">>,
              <<"a", ".", ".", "f", "i", "t">>,
              <<"a", "t", "m", "p">>,
              <<"a", ".", "t", "m", "p">>,
              <<".", "a", ".", "f", "i", "t">>,
              <<"~", "x", ".", "f", "i", "t">>,
              <<"t", "m", "p", "a", ".", "c", "r", "2">>}
Paths == {d \o <<"/">> \o n : d \in PathDirs, n \in PathNames}

\* what fits.open can make of a file: an OSError, a header without BAYERPAT,
\* a header with it
FitsOutcomes ==
    {[error |-> "OSError", bayerpat |-> NoPattern],
     [error |-> "none", bayerpat |-> NoPattern],
     [error |-> "none", bayerpat |-> <<"R", "G", "G", "B">>]}

\* what rawpy.imread can make of a file: one of the LibRaw errors, a 2x2 tile
\* with four colour labels, a tile and labels of different lengths, a tile with
\* an index that is no position of the tile
RawOutcomes ==
    {[error |-> "LibRawNonFatalError", raw_pattern |-> <<>>, color_desc |-> <<>>],
     [error |-> "LibRawFatalError", raw_pattern |-> <<>>, color_desc |-> <<>>],
     GoodContent.raw,
     MismatchContent.raw,
     [error |-> "none", raw_pattern |-> <<0, 1, 3, 2>>, color_desc |-> <<"R", "G", "B">>],
     [error |-> "none", raw_pattern |-> <<0, 1, 4, 2>>,
      color_desc |-> <<"R", "G", "B", "G">>]}

Contents == [fits : FitsOutcomes, raw : RawOutcomes]

\* every 2x2 tile of indices with every four colour labels, in a raw file
TileIndices == [1..4 -> 0..3]
ColourLabels == [1..4 -> {"R", "G", "B"}]
TileContents ==
    {[fits |-> [error |-> "OSError", bayerpat |-> NoPattern],
      raw |-> [error |-> "none", raw_pattern |-> indices, color_desc |-> colors]] :
        indices \in TileIndices, colors \in ColourLabels}

NoResult == [image |-> None, readers |-> <<>>, raised |-> "none"]

\* no call of read_image is followed
RdInit ==
    /\ rd_pc = "none"
    /\ rd_path = <<>>
    /\ rd_content = UnreadableContent
    /\ rd_result = NoResult

\* read_image is about to be called on one of the paths, the file holding one
\* of the contents
RdInputs ==
    /\ rd_pc = "call"
    /\ \/ rd_path \in Paths /\ rd_content \in Contents
       \/ rd_path = ScanFolder \o <<"/">> \o FileNames[1] /\ rd_content \in TileContents
    /\ rd_result = NoResult

\* read_image(Path(image_path)), the argument of _enqueue_image
call_read_image ==
    /\ DecodeOnly
    /\ rd_pc = "call"
    /\ rd_result' = read_image(rd_path, rd_content, 1)
    /\ rd_pc' = IF rd_result'.raised # "none" THEN "raised" ELSE "read"
    /\ UNCHANGED <<rd_path, rd_content, image_input_queue>>

\* _enqueue_image(image) on what read_image returned
call_enqueue_image ==
    /\ DecodeOnly
    /\ rd_pc = "read"
    /\ image_input_queue' = _enqueue_image(image_input_queue, rd_result.image)
    /\ rd_pc' = "done"
    /\ UNCHANGED <<rd_path, rd_content, rd_result>>

DecodeNext ==
    \/ call_read_image
    \/ call_enqueue_image

Init == SqInit /\ StInit /\ ScInit /\ RdInit

\* the queue alone: it is constructed with any of the capacities
SpecQueue == Init /\ [][SqNext]_vars

\* the DataStore's queues are constructed unbounded: SignalingQueue()
StoreInit == Init /\ sq_maxsize = 0

SpecStore == StoreInit /\ [][StNext]_vars

SpecScanner == StoreInit /\ [][ScNext]_vars

\* read_image and _enqueue_image on every path and content
DecodeInit == SqInit /\ sq_maxsize = 0 /\ StInit /\ ScInit /\ RdInputs

SpecDecode == DecodeInit /\ [][DecodeNext]_vars

\* the monitors' threads handling creation events, nothing stopping them
CreationNext ==
    \/ start
    \/ start_scan_in_progress
    \/ \E m \in Monitors, path \in EventPaths : on_created(m, path)
    \/ \E m \in Monitors, size \in FileSizes : poll_size(m, size)
    \/ \E m \in Monitors, content \in ScanContents : read_and_enqueue(m, content)
    \/ \E m \in Monitors : _enqueue_image_return(m)

\* a monitor's thread is scheduled again and again: time.sleep returns and the
\* statement after it is run
HandlerRuns(m) ==
    /\ m \in Monitors
    /\ \/ \E size \in FileSizes : poll_size(m, size)
       \/ \E content \in ScanContents : read_and_enqueue(m, content)
       \/ _enqueue_image_return(m)

\* a turn of a monitor's loop reads the size the turn before it read
StablePoll(m) ==
    /\ m \in Monitors
    /\ mon_handler[m].polled
    /\ poll_size(m, mon_handler[m].last_file_size)

SpecCreation ==
    /\ StoreInit
    /\ [][CreationNext]_vars
    /\ \A m \in 1..MaxStarts : WF_vars(HandlerRuns(m))

\* stop() while handlers enqueue and the consumer dequeues
StopNext ==
    \/ start
    \/ start_scan_in_progress
    \/ \E m \in Monitors, path \in EventPaths : on_moved(m, path)
    \/ \E m \in Monitors, content \in ScanContents : read_and_enqueue(m, content)
    \/ \E m \in Monitors : _enqueue_image_return(m)
    \/ stop
    \/ _stop_observer_stopped
    \/ _stop_observer_scan_in_progress
    \/ _purge_queue_test
    \/ _purge_queue_get
    \/ _purge_queue_return
    \/ consume

\* the thread that called start() or stop() is scheduled again and again: the
\* statement it stands at is run whenever that statement can run
CallerRuns ==
    \/ start_scan_in_progress
    \/ _stop_observer_stopped
    \/ _stop_observer_scan_in_progress
    \/ _purge_queue_test
    \/ _purge_queue_get
    \/ _purge_queue_return

SpecStop ==
    /\ StoreInit
    /\ [][StopNext]_vars
    /\ WF_vars(CallerRuns)
    /\ \A m \in 1..MaxStarts : WF_vars(HandlerRuns(m))

(* ------------------------------ properties ---------------------------- *)

\* the items of the operations of one kind, in the order they changed the queue
ItemsOf(kind) ==
    LET s == SelectSeq(sq_ops, LAMBDA o : o.kind = kind)
    IN [i \in 1..Len(s) |-> s[i].item]

\* the threads inside a call: past super().put/get, before the emit
InCall == {t \in Threads : sq_pc[t] # "idle"}

SignalOf(kind) == IF kind = "put" THEN "pushed" ELSE "popped"

\* C1: whatever the interleaving of put/put_nowait/get/get_nowait by several
\* threads, the items removed so far, in removal order, followed by the items
\* still queued, are the items inserted, in insertion order: nothing is lost,
\* duplicated or reordered.
C1_FifoOrder == ItemsOf("get") \o sq_queue = ItemsOf("put")

\* C1's case: two items were inserted and the first of them was removed, in
\* calls that overlapped
C1_Witness ==
    /\ Len(ItemsOf("put")) >= 2
    /\ ItemsOf("get") = <<1>>
    /\ sq_queue = <<2>>
    /\ sq_overlap

\* the notifications emitted for the k-th operation
SignalsOfOp(k) == {i \in 1..Len(sq_signals) : sq_signals[i].op = k}

\* C2: as long as no call has overlapped another, every operation whose call
\* has returned has exactly one notification, emitted before the call returned
\* (an operation whose call is in progress has at most one), and that
\* notification is pushed for a put or put_nowait, popped for a get or
\* get_nowait, and carries the size the queue had right after the operation.
C2_SequentialNotifications ==
    ~sq_overlap =>
        \A k \in 1..Len(sq_ops) :
            /\ Cardinality(SignalsOfOp(k)) <= 1
            /\ (\A t \in Threads : sq_cur_op[t] # k) => Cardinality(SignalsOfOp(k)) = 1
            /\ \A i \in SignalsOfOp(k) :
                  /\ sq_signals[i].signal = SignalOf(sq_ops[k].kind)
                  /\ sq_signals[i].value = sq_ops[k].size_after

\* C3: with several threads on the queue, every notification carries the size
\* the queue had immediately after the operation that caused it.
C3_SizeOfCausingOperation ==
    \A i \in 1..Len(sq_signals) :
        sq_signals[i].value = sq_ops[sq_signals[i].op].size_after

\* C4: with several threads on the queue, every operation whose call has
\* returned has exactly one notification, and notifications are emitted in the
\* order in which their operations changed the queue.
C4_NotificationsInOperationOrder ==
    /\ \A k \in 1..Len(sq_ops) :
          /\ Cardinality({i \in 1..Len(sq_signals) : sq_signals[i].op = k}) <= 1
          /\ (\A t \in Threads : sq_cur_op[t] # k)
                => Cardinality({i \in 1..Len(sq_signals) : sq_signals[i].op = k}) = 1
    /\ \A i, j \in 1..Len(sq_signals) :
          i < j => sq_signals[i].op <= sq_signals[j].op

\* C5: in every reachable state of the store exactly one of session_is_started,
\* session_is_stopped, session_is_paused is true: session_is_stopped before any
\* call, and afterwards the one of the most recent record_session_* call.
C5_SessionExactlyOne ==
    /\ Cardinality({k \in 1..3 :
            <<session_is_started, session_is_stopped, session_is_paused>>[k]}) = 1
    /\ st_last_session_call = "none" => session_is_stopped
    /\ st_last_session_call = "record_session_start" => session_is_started
    /\ st_last_session_call = "record_session_stop" => session_is_stopped
    /\ st_last_session_call = "record_session_pause" => session_is_paused

\* C5's case: record_session_pause called on a session that was already paused
C5_Witness ==
    /\ st_last_call = "record_session_pause"
    /\ st_repeat
    /\ session_is_paused

NotifyingCalls == {"record_session_start", "record_session_stop",
                   "record_session_pause", "web_server_is_running"}

\* C6: a call of record_session_start/stop/pause or of the web_server_is_running
\* setter has, when it returns, refreshed the observers registered when it was
\* called, once per registration and in registration order, each seeing the new
\* state; an observer that is not registered is not refreshed.
C6_EveryObserverRefreshed ==
    st_last_call \in NotifyingCalls =>
        /\ [i \in 1..Len(st_refreshed) |-> st_refreshed[i].observer] = st_observers_before
        /\ \A i \in 1..Len(st_refreshed) :
              st_refreshed[i].seen = <<session_is_started, session_is_stopped,
                                       session_is_paused, web_server_is_running>>

\* C7: after an assignment to stacking_mode, stacking_mode reads "Sum" when the
\* trimmed text is "Sum" and "Mean" otherwise, and the assignment did not raise.
C7_StackingModeSumOrMean ==
    st_last_call = "stacking_mode" =>
        /\ stacking_mode = IF strip(st_text) = STACKING_MODE_SUM
                           THEN STACKING_MODE_SUM ELSE STACKING_MODE_MEAN
        /\ st_raised = "none"

\* C8: pause() leaves _IMAGE_INPUT_QUEUE alone: no step of pause(), from the
\* call to the return, changes the queue, whether or not a monitor was
\* running, and the images queued when it has returned can be dequeued.
C8_PauseKeepsQueue ==
    /\ [](sc_last = "pause" /\ image_input_queue # <<>> => ENABLED consume)
    /\ [][(\/ main_pc = "idle" /\ (main_pc' \in {"pause_wait", "pause_flag"}
                                    \/ sc_last' = "pause")
           \/ main_pc = "pause_wait" /\ main_pc' = "pause_flag"
           \/ main_pc = "pause_flag" /\ main_pc' = "idle")
              => image_input_queue' = image_input_queue]_vars

\* C8's case: pause() on a running scanner with two images queued
C8_Witness ==
    /\ sc_last = "pause"
    /\ sc_was_monitoring
    /\ Len(image_input_queue) >= 2

\* C9: when stop() has just returned, _IMAGE_INPUT_QUEUE is empty, whatever it
\* held and whether or not a monitor was running, and nothing was put on the
\* store's queue.
C9_StopEmptiesQueue == sc_last = "stop" => image_input_queue = <<>> /\ sq_queue = <<>>

\* C10: stop() is synchronous with event handling: while stop() purges and
\* after it has returned (until the next start()) no monitor of the scanner is
\* still handling the event it was handling when stop() was called, and no
\* image is enqueued after stop() has returned.
C10_StopWaitsForHandler ==
    /\ (main_pc \in {"purge", "purge_get", "purge_return"} \/ sc_since_stop)
          => sc_handling_at_stop = {}
    /\ ~sc_late_enqueue

\* C11: every image decoded while an event is handled is appended to the
\* store's input queue (STORE.input_queue, a SignalingQueue): that queue took
\* one put per image, each followed by its pushed notification.
C11_EnqueuedOnStoreInputQueue ==
    /\ Len(ItemsOf("put")) = sc_images
    /\ Len(sq_signals) = sc_images
    /\ \A i \in 1..Len(sq_signals) : sq_signals[i].signal = "pushed"

\* C20: right after the store is constructed, before any call on it,
\* stacking_mode reads "Sum" or "Mean" and align_before_stacking reads true.
C20_InitialStackingMode ==
    st_last_call = "__init__" =>
        /\ stacking_mode \in {STACKING_MODE_SUM, STACKING_MODE_MEAN}
        /\ align_before_stacking = TRUE

\* C18: put_nowait on a full bounded queue raises Full and get_nowait on an
\* empty queue raises Empty, at once: the call is never made to wait, it
\* returns in the step that makes it, the queue's contents are unchanged and
\* no notification is emitted (none sent, none left pending).
C18_NowaitRaisesAtOnce ==
    /\ [](\A t \in Threads : (sq_pc[t] = "idle" /\ IsFull)
                                => ENABLED put_nowait(t))
    /\ [](\A t \in Threads : (sq_pc[t] = "idle" /\ qsize(sq_queue) = 0)
                                => ENABLED get_nowait(t))
    /\ [][/\ sq_nowait' = "put_nowait" =>
                /\ IsFull
                /\ sq_raised' = "Full"
                /\ sq_queue' = sq_queue
                /\ sq_signals' = sq_signals
                /\ sq_pc' = sq_pc
          /\ sq_nowait' = "get_nowait" =>
                /\ qsize(sq_queue) = 0
                /\ sq_raised' = "Empty"
                /\ sq_queue' = sq_queue
                /\ sq_signals' = sq_signals
                /\ sq_pc' = sq_pc]_vars

\* a put_nowait has just raised Full on a queue filled to its capacity
C18_Witness ==
    /\ sq_nowait = "put_nowait"
    /\ sq_raised = "Full"
    /\ sq_maxsize > 0
    /\ qsize(sq_queue) = sq_maxsize

\* C13: for a creation event the decode is attempted only after two
\* consecutive polls of the file's size returned the same value: the handler
\* leaves its loop for the decode only in a turn that read the size the turn
\* before it had read, so at least two polls precede the decode.
C13_DecodeAfterTwoEqualPolls ==
    /\ [](\A m \in Monitors :
            (mon_handler[m].kind = "created" /\ mon_handler[m].state = "decode")
                => /\ mon_handler[m].polled
                   /\ mon_handler[m].last_file_size \in FileSizes)
    /\ [][\A m \in Monitors :
            (/\ mon_handler'[m].kind = "created"
             /\ mon_handler'[m].state = "decode"
             /\ mon_handler[m].state # "decode")
                => /\ mon_handler[m].kind = "created"
                   /\ mon_handler[m].state = "polling"
                   /\ mon_handler[m].polled
                   /\ mon_handler'[m].last_file_size = mon_handler[m].last_file_size]_vars

\* a creation handler has left its loop after reading the same size twice
C13_Witness ==
    \E m \in Monitors :
        /\ mon_handler[m].kind = "created"
        /\ mon_handler[m].state = "decode"
        /\ mon_handler[m].polled
        /\ mon_handler[m].last_file_size = 2

\* C16: whatever goes wrong while a file is decoded, the handling of the event
\* returns without raising: no monitor thread is ever ended by an exception
\* that left on_created or on_moved.
C16_DecodeFailureNeverRaises ==
    \A m \in Monitors : mon_handler[m].state # "raised"

\* C17: a move event is decoded at once: its handler never polls a size and
\* never waits, its first step is the decode attempt, and that step appends
\* the image, if one was decoded, to the queue once (the image was not in the
\* queue before, the queue never holds an image twice, and the handler's
\* return after that step appends nothing).
C17_MovedDecodedAtOnce ==
    /\ [](\A m \in Monitors :
            mon_handler[m].kind = "moved"
                => /\ mon_handler[m].state \in {"decode", "enqueued"}
                   /\ ~mon_handler[m].polled
                   /\ mon_handler[m].last_file_size = -1)
    /\ [](\A i, j \in 1..Len(image_input_queue) :
            image_input_queue[i] = image_input_queue[j] => i = j)
    /\ [][\A m \in Monitors :
            (mon_handler[m].kind = "moved" /\ mon_handler'[m] # mon_handler[m])
                => IF mon_handler[m].state = "decode"
                   THEN \E content \in ScanContents :
                     LET r == read_image(mon_handler[m].path, content, sc_images + 1)
                     IN IF r.raised = "none" /\ r.image # None
                        THEN /\ image_input_queue' = Append(image_input_queue, r.image)
                             /\ \A i \in 1..Len(image_input_queue) :
                                    image_input_queue[i] # r.image
                        ELSE image_input_queue' = image_input_queue
                   ELSE /\ mon_handler'[m].state = "idle"
                        /\ image_input_queue' = image_input_queue]_vars

\* on_moved has just returned after enqueuing the image it decoded
C17_Witness ==
    /\ sc_last = "on_moved"
    /\ image_input_queue # <<>>
    /\ image_input_queue[Len(image_input_queue)].serial = sc_images
    /\ name(image_input_queue[Len(image_input_queue)].origin) = <<"n", ".", "c", "r", "2">>

\* C19: if the polls of a creation handler's file eventually read the same
\* size twice in a row (they do whenever they can infinitely often), the
\* handler eventually leaves its loop and the decode is attempted; a turn that
\* reads another size than the one before keeps the handler in the loop,
\* enqueues nothing and raises nothing, and a turn that reads the same size
\* takes it to the decode.
C19_PollingLoopLeavesWhenStable ==
    /\ (\A m \in 1..MaxStarts : SF_vars(StablePoll(m)))
          => \A m \in 1..MaxStarts :
                (m \in Monitors /\ mon_handler[m].kind = "created")
                    ~> (m \in Monitors /\ mon_handler[m].state \in {"idle", "raised"})
    /\ [][\A m \in Monitors :
            (/\ mon_handler[m].kind = "created"
             /\ mon_handler[m].state = "polling"
             /\ mon_handler'[m] # mon_handler[m])
                => IF mon_handler[m].polled
                      /\ mon_handler'[m].last_file_size = mon_handler[m].last_file_size
                   THEN mon_handler'[m].state = "decode"
                   ELSE /\ mon_handler'[m].state = "polling"
                        /\ mon_handler'[m].polled
                        /\ image_input_queue' = image_input_queue
                        /\ sc_images' = sc_images]_vars

\* on_created has just returned: its loop was left and the image it decoded
\* was enqueued
C19_Witness ==
    /\ sc_last = "on_created"
    /\ image_input_queue # <<>>
    /\ image_input_queue[Len(image_input_queue)].serial = sc_images

\* the file name a path of Paths was built from
FileNameOf(path) == CHOOSE n \in PathNames : \E d \in PathDirs : path = d \o <<"/">> \o n

\* the file name begins with ".", "~" or "tmp"
BeginsIgnored(n) ==
    \/ Len(n) >= 1 /\ n[1] \in {".", "~"}
    \/ Len(n) >= 3 /\ n[1] = "t" /\ n[2] = "m" /\ n[3] = "p"

\* the file name ends with ext, the case of the letters set aside; ext gives,
\* for each position, the characters that match
EndsWith(n, ext) ==
    /\ Len(n) >= Len(ext)
    /\ \A i \in 1..Len(ext) : n[Len(n) - Len(ext) + i] \in ext[i]

ExtFit == <<{"."}, {"f", "F"}, {"i", "I"}, {"t", "T"}>>
ExtFits == <<{"."}, {"f", "F"}, {"i", "I"}, {"t", "T"}, {"s", "S"}>>

\* C12: for every path whose file name, the last component and never the
\* directory part, begins with ".", "~" or "tmp", read_image returns no image,
\* calls neither reader and raises nothing, and _enqueue_image then leaves the
\* queue empty.
C12_IgnoredNamesNotRead ==
    (rd_path \in Paths /\ BeginsIgnored(FileNameOf(rd_path)))
        => /\ rd_pc \in {"call", "read", "done"}
           /\ rd_result.image = None
           /\ rd_result.readers = <<>>
           /\ rd_result.raised = "none"
           /\ image_input_queue = <<>>

\* read_image and _enqueue_image have returned for a file named ".a.fit", which
\* both libraries read, in a folder whose name begins with none of the prefixes
C12_Witness ==
    /\ rd_pc = "done"
    /\ rd_path = <<"/", "w", "/", ".", "a", ".", "f", "i", "t">>
    /\ rd_content.fits.error = "none"
    /\ rd_content.raw.error = "none"
    /\ image_input_queue = <<>>

\* C14: for every path whose file name is not ignored, read_image calls
\* exactly one reader: the FITS reader when the name ends with ".fit" or
\* ".fits" in any case of the letters, the RAW reader otherwise, whatever the
\* file holds.
C14_DispatchByExtension ==
    (/\ rd_pc \in {"read", "done", "raised"}
     /\ rd_path \in Paths
     /\ ~BeginsIgnored(FileNameOf(rd_path)))
        => rd_result.readers =
              IF EndsWith(FileNameOf(rd_path), ExtFit) \/ EndsWith(FileNameOf(rd_path), ExtFits)
              THEN <<"_read_fit_image">>
              ELSE <<"_read_raw_image">>

\* "m.FITS", in a folder named "tmp" and holding what only rawpy reads, went to
\* the FITS reader, which gave no image
C14_Witness ==
    /\ rd_pc = "done"
    /\ rd_path = <<"/", "t", "m", "p", "/", "m", ".", "F", "I", "T", "S">>
    /\ rd_content.fits.error = "OSError"
    /\ rd_content.raw = GoodContent.raw
    /\ rd_result.readers = <<"_read_fit_image">>
    /\ rd_result.image = None

\* C15: for every tile of four indices in 0..3 and every four colour labels
\* the RAW reader's image has the 4-character bayer pattern whose i-th
\* character is colors[indices[i]]; identity indices give the labels
\* unchanged, and indices [0,1,3,2] with labels "RGBG" give "RGGB".
C15_BayerPatternPermuted ==
    (/\ rd_pc \in {"read", "done", "raised"}
     /\ rd_result.readers = <<"_read_raw_image">>
     /\ rd_content.raw.error = "none"
     /\ rd_content.raw.raw_pattern \in TileIndices
     /\ Len(rd_content.raw.color_desc) = 4)
        => LET indices == rd_content.raw.raw_pattern
               colors == rd_content.raw.color_desc
           IN /\ rd_pc # "raised"
              /\ rd_result.image # None
              /\ Len(rd_result.image.bayer_pattern) = 4
              /\ \A i \in 1..4 : rd_result.image.bayer_pattern[i] = colors[indices[i] + 1]
              /\ indices = <<0, 1, 2, 3>> => rd_result.image.bayer_pattern = colors
              /\ (indices = <<0, 1, 3, 2>> /\ colors = <<"R", "G", "B", "G">>)
                    => rd_result.image.bayer_pattern = <<"R", "G", "G", "B">>

\* the tile [0,1,3,2] with the labels "RGBG" was read as "RGGB"
C15_Witness ==
    /\ rd_pc = "read"
    /\ rd_content \in TileContents
    /\ rd_content.raw.raw_pattern = <<0, 1, 3, 2>>
    /\ rd_content.raw.color_desc = <<"R", "G", "B", "G">>
    /\ rd_result.image.bayer_pattern = <<"R", "G", "G", "B">>

\* C21: between the calls of start(), pause() and stop() on the scanner,
\* scan_in_progress is true exactly when a monitor the scanner started is
\* still running, and no monitor is running once pause() or stop() has
\* returned.
C21_ScanInProgressIffMonitoring ==
    main_pc = "idle" =>
        /\ (scan_in_progress = "True") <=> (\E m \in Monitors : mon_running[m])
        /\ sc_last \in {"pause", "stop"} => \A m \in Monitors : ~mon_running[m]

\* the number of refreshes of observer o in the most recent call, and the number
\* of its registrations when that call started
RefreshesOf(o) == Cardinality({i \in 1..Len(st_refreshed) : st_refreshed[i].observer = o})
RegistrationsOf(o) ==
    Cardinality({i \in 1..Len(st_observers_before) : st_observers_before[i] = o})

\* C22: in one notification, where a refresh may unregister the observer it
\* runs for and removes no other, every observer registered when the
\* notification started is refreshed, and one registered once is refreshed
\* exactly once.
C22_RefreshedOnceDespiteRemoval ==
    st_last_call \in NotifyingCalls =>
        \A o \in ObserverIds :
            /\ RegistrationsOf(o) >= 1 => RefreshesOf(o) >= 1
            /\ RegistrationsOf(o) = 1 => RefreshesOf(o) = 1

\* C23: stop() always returns: once called, the purge of the input queue ends
\* and the caller is back, also when a consumer dequeues from the same queue
\* during the purge.
C23_StopAlwaysReturns == (main_pc # "idle") ~> (main_pc = "idle")
====
